---- MODULE Spec2Model ----
(***************************************************************************)
(* AI Translator: the FastAPI translation service (src/backend/main.py)    *)
(* and the Streamlit client form (src/frontend/app.py).                    *)
(*                                                                         *)
(* A Python str is modelled by its run-length encoding: a sequence of      *)
(* runs [ch, n] (n >= 1 copies of character ch) in which adjacent runs     *)
(* differ in ch, so that a string has one representation and texts of      *)
(* 5000 and 5001 characters are ordinary values.  A message built by an    *)
(* f-string is the sequence of its pieces.  An Optional value is a         *)
(* sequence of length 0 (None) or 1.                                       *)
(***************************************************************************)
EXTENDS Integers, Sequences, FiniteSets, TLC

\* ------------------------------------------------------------------ bounds
\* Longest text, in runs, that a request, a completion or the text area holds.
MaxRuns == 3
\* Requests the service handles at the same time in SpecConcurrent.
NumRequests == 2

\* --------------------------------------------------------- program constants
\* main.py:92  len(request.text) > 5000
MAX_TEXT_LENGTH == 5000
\* app.py:171  st.text_area(..., max_chars=5000)
max_chars == 5000

\* ------------------------------------------------------------------ strings
Whitespace == {" "}
Chars == {" ", "a"}
RunLengths == {1, MAX_TEXT_LENGTH - 1, MAX_TEXT_LENGTH, MAX_TEXT_LENGTH + 1}
Runs == [ch : Chars, n : RunLengths]

\* The strings of at most MaxRuns runs.
Strings ==
  UNION { { s \in [1..k -> Runs] : \A i \in 1..(k - 1) : s[i].ch # s[i + 1].ch }
          : k \in 0..MaxRuns }

\* len(s)
RECURSIVE Len_(_)
Len_(s) == IF s = <<>> THEN 0 ELSE Head(s).n + Len_(Tail(s))

\* s.lstrip(): leading whitespace removed
RECURSIVE LStrip(_)
LStrip(s) ==
  IF s # <<>> /\ Head(s).ch \in Whitespace THEN LStrip(Tail(s)) ELSE s

\* s.rstrip(): trailing whitespace removed
RECURSIVE RStrip(_)
RStrip(s) ==
  IF s # <<>> /\ s[Len(s)].ch \in Whitespace
  THEN RStrip(SubSeq(s, 1, Len(s) - 1))
  ELSE s

\* s.strip()
Strip(s) == RStrip(LStrip(s))

\* bool(s) of a str: the empty string is falsy
Truthy(s) == s # <<>>

\* ------------------------------------------------------------ the service
\* main.py:48-61
SUPPORTED_LANGUAGES ==
  [c \in {"fr", "en", "es", "de", "it", "pt", "ru", "ja", "ko", "zh", "ar", "hi"} |->
     CASE c = "fr" -> "French"
       [] c = "en" -> "English"
       [] c = "es" -> "Spanish"
       [] c = "de" -> "German"
       [] c = "it" -> "Italian"
       [] c = "pt" -> "Portuguese"
       [] c = "ru" -> "Russian"
       [] c = "ja" -> "Japanese"
       [] c = "ko" -> "Korean"
       [] c = "zh" -> "Chinese"
       [] c = "ar" -> "Arabic"
       [] c = "hi" -> "Hindi"]

\* Values of OPENAI_API_KEY in the process environment: unset, empty, set.
EnvKeys == {<<>>, <<"">>, <<"sk-test">>}

\* Language codes a request may carry ("xx" and "" are not in the table).
Codes == {"en", "fr", "xx"}
Models == {"gpt-3.5-turbo"}

\* main.py:35-39
TranslationRequest ==
  [text : Strings, source_language : Codes, target_language : Codes, model : Models]

NoRequest ==
  [text |-> <<>>, source_language |-> "", target_language |-> "", model |-> ""]

\* What client.chat.completions.create does: raise, or return a response whose
\* choices may be missing and whose message content may be None.
Completions == { s \in Strings : Len_(s) <= MaxRuns }
Replies ==
  [kind : {"raise"}, msg : {"Connection error."}, choices : {<<>>}]
  \cup [kind : {"response"}, msg : {""},
        choices : {<<>>} \cup { <<[content |-> c]>> : c \in {<<>>} \cup { <<s>> : s \in Completions } }]

NoReply == [kind |-> "none", msg |-> "", choices |-> <<>>]

\* An HTTP outcome of the handler: HTTPException(status_code, detail) or the
\* TranslationResponse (data) returned with status 200.
HTTPException(status_code, detail) ==
  [status |-> status_code, detail |-> detail, data |-> <<>>]

NoResult == [status |-> 0, detail |-> <<>>, data |-> <<>>]

Slots == 1..NumRequests

VARIABLES
  environ,     \* OPENAI_API_KEY in the environment
  phase,       \* "boot", "serving", or "failed" (the import raised ValueError)
  api_key,     \* main.py:17 module global
  languages,   \* main.py:48 module global SUPPORTED_LANGUAGES
  pc,          \* per request: "idle", "handling", "calling", "awaiting", "replied", "done"
  request,     \* per request: the TranslationRequest
  call,        \* per request: arguments of the pending completion call
  calls,       \* per request: completion calls issued so far
  reply,       \* per request: what the completion call did
  result       \* per request: the HTTP outcome

svcVars == <<environ, phase, api_key, languages, pc, request, call, calls, reply, result>>

VARIABLES
  source_lang,        \* app.py:144 st.session_state.source_lang
  target_lang,        \* app.py:153 st.session_state.target_lang
  text_to_translate,  \* app.py:168 the text area's value
  button_disabled,    \* app.py:186 the translate button as last rendered
  posted,             \* the payload POSTed by the last script run, if any
  response,           \* what requests.post did in the last script run
  outcome,            \* what translate_text (app.py:64) returned or raised
  shown               \* what the last script run rendered under the form

formVars == <<source_lang, target_lang, text_to_translate, button_disabled,
              posted, response, outcome, shown>>

vars == <<svcVars, formVars>>

\* `not api_key`: None and "" are falsy
NotKey(key) == key = <<>> \/ key = <<"">>

\* main.py:78-79
CheckKey(key) ==
  IF NotKey(key)
  THEN HTTPException(500, <<"OpenAI API key not configured">>)
  ELSE NoResult

\* main.py:82-83
CheckSource(table, req) ==
  IF req.source_language \notin DOMAIN table
  THEN HTTPException(400, <<"Source language '", req.source_language, "' not supported">>)
  ELSE NoResult

\* Variant of CheckTarget that also refuses a target equal to the source.
CheckTargetDistinct(table, req) ==
  IF req.target_language \notin DOMAIN table \/ req.target_language = req.source_language
  THEN HTTPException(400, <<"Target language '", req.target_language, "' not supported">>)
  ELSE NoResult

\* main.py:85-86
CheckTarget(table, req) ==
  IF req.target_language \notin DOMAIN table
  THEN HTTPException(400, <<"Target language '", req.target_language, "' not supported">>)
  ELSE NoResult

\* main.py:89-90
CheckEmpty(req) ==
  IF ~Truthy(Strip(req.text))
  THEN HTTPException(400, <<"Text cannot be empty">>)
  ELSE NoResult

\* Variant of CheckLength that never fails.
CheckLengthSkipped(req) == NoResult

\* Variant of CheckLength comparing with >= .
CheckLengthOffByOne(req) ==
  IF Len_(req.text) >= MAX_TEXT_LENGTH
  THEN HTTPException(400, <<"Text too long (max 5000 characters)">>)
  ELSE NoResult

\* main.py:92-93
CheckLength(req) ==
  IF Len_(req.text) > MAX_TEXT_LENGTH
  THEN HTTPException(400, <<"Text too long (max 5000 characters)">>)
  ELSE NoResult

\* The first exception raised by a sequence of checks, or NoResult.
RECURSIVE FirstRaised(_)
FirstRaised(checks) ==
  IF checks = <<>> THEN NoResult
  ELSE IF Head(checks) # NoResult THEN Head(checks)
  ELSE FirstRaised(Tail(checks))

\* Variant of ValidationError checking the text before the languages.
ValidationErrorTextFirst(key, table, req) ==
  FirstRaised(<<CheckKey(key), CheckEmpty(req), CheckLength(req),
                CheckSource(table, req), CheckTarget(table, req)>>)

\* main.py:76-93: the checks in the order the handler makes them
ValidationError(key, table, req) ==
  FirstRaised(<<CheckKey(key), CheckSource(table, req), CheckTarget(table, req),
                CheckEmpty(req), CheckLength(req)>>)

\* main.py:95-115: the arguments of client.chat.completions.create
CompletionCall(table, req) ==
  [model |-> req.model,
   system |-> "You are a professional translator. Provide accurate and natural translations.",
   user |-> <<"Translate the following text from ", table[req.source_language],
              " to ", table[req.target_language],
              ". Provide only the translation without any additional explanation or formatting. Text to translate: ",
              req.text>>]

NoCall == [model |-> "", system |-> "", user |-> <<>>]

\* Variant of TranslationFailed that drops the error text.
TranslationFailedNoText(msg) == HTTPException(500, <<"Translation failed">>)

\* main.py:129: HTTPException(status_code=500, detail=f"Translation failed: {str(e)}")
TranslationFailed(msg) == HTTPException(500, <<"Translation failed: ", msg>>)

\* An exception in flight inside the try block: an HTTPException the handler
\* raised itself, or any other Exception with its str().
RaisedHTTPException(exc) == [http |-> TRUE, exc |-> exc, msg |-> ""]
RaisedException(msg) == [http |-> FALSE, exc |-> NoResult, msg |-> msg]

\* main.py:126-129: an HTTPException is raised again as it is, anything else
\* is wrapped
Except(e) == IF e.http THEN e.exc ELSE TranslationFailed(e.msg)

\* Variant of TranslatedText without .strip().
TranslatedTextUnstripped(content) == content

\* main.py:117: response.choices[0].message.content.strip()
TranslatedText(content) == Strip(content)

\* main.py:107-129: the outcome once the completion call has returned or raised
Outcome(req, rep) ==
  IF rep.kind = "raise"
    THEN Except(RaisedException(rep.msg))
  ELSE IF rep.choices = <<>>
    THEN Except(RaisedException("list index out of range"))
  ELSE IF rep.choices[1].content = <<>>
    THEN Except(RaisedException("'NoneType' object has no attribute 'strip'"))
  ELSE [status |-> 200, detail |-> <<>>,
        data |-> <<[original_text |-> req.text,
                    translated_text |-> TranslatedText(rep.choices[1].content[1]),
                    source_language |-> req.source_language,
                    target_language |-> req.target_language]>>]

\* Variant of StartupFails testing `api_key is None`.
StartupFailsOnlyUnset(key) == key = <<>>

\* main.py:17-19: the import raises ValueError when the key is unset or empty
StartupFails(key) == NotKey(key)

InitService ==
  /\ environ \in EnvKeys
  /\ phase = "boot"
  /\ api_key = <<>>
  /\ languages = SUPPORTED_LANGUAGES
  /\ pc = [r \in Slots |-> "idle"]
  /\ request = [r \in Slots |-> NoRequest]
  /\ call = [r \in Slots |-> NoCall]
  /\ calls = [r \in Slots |-> 0]
  /\ reply = [r \in Slots |-> NoReply]
  /\ result = [r \in Slots |-> NoResult]

\* main.py:16-23: module import
Startup ==
  /\ phase = "boot"
  /\ api_key' = environ
  /\ phase' = IF StartupFails(environ) THEN "failed" ELSE "serving"
  /\ UNCHANGED formVars
  /\ UNCHANGED <<environ, languages, pc, request, call, calls, reply, result>>

\* main.py:72-73: POST /translate arrives with a well-formed body
Receive(r, req) ==
  /\ phase = "serving"
  /\ pc[r] = "idle"
  /\ pc' = [pc EXCEPT ![r] = "handling"]
  /\ request' = [request EXCEPT ![r] = req]
  /\ UNCHANGED formVars
  /\ UNCHANGED <<environ, phase, api_key, languages, call, calls, reply, result>>

\* main.py:76-104: the checks, then the prompt
Validate(r) ==
  /\ pc[r] = "handling"
  /\ LET err == ValidationError(api_key, languages, request[r]) IN
       IF err # NoResult
       THEN /\ pc' = [pc EXCEPT ![r] = "done"]
            /\ result' = [result EXCEPT ![r] = Except(RaisedHTTPException(err))]
            /\ UNCHANGED call
       ELSE /\ pc' = [pc EXCEPT ![r] = "calling"]
            /\ call' = [call EXCEPT ![r] = CompletionCall(languages, request[r])]
            /\ UNCHANGED result
  /\ UNCHANGED formVars
  /\ UNCHANGED <<environ, phase, api_key, languages, request, calls, reply>>

\* main.py:107-115: the completion call is issued
CallAPI(r) ==
  /\ pc[r] = "calling"
  /\ pc' = [pc EXCEPT ![r] = "awaiting"]
  /\ calls' = [calls EXCEPT ![r] = @ + 1]
  /\ UNCHANGED formVars
  /\ UNCHANGED <<environ, phase, api_key, languages, request, call, reply, result>>

\* the completion API answers or fails
APIReply(r, rep) ==
  /\ pc[r] = "awaiting"
  /\ pc' = [pc EXCEPT ![r] = "replied"]
  /\ reply' = [reply EXCEPT ![r] = rep]
  /\ UNCHANGED formVars
  /\ UNCHANGED <<environ, phase, api_key, languages, request, call, calls, result>>

\* Variant of Shape reading the request from a place the requests in hand share.
ShapeSharedRequest(r) ==
  /\ pc[r] = "replied"
  /\ pc' = [pc EXCEPT ![r] = "done"]
  /\ \E s \in Slots :
       /\ pc[s] # "idle"
       /\ result' = [result EXCEPT ![r] = Outcome(request[s], reply[r])]
  /\ UNCHANGED formVars
  /\ UNCHANGED <<environ, phase, api_key, languages, request, call, calls, reply>>

\* main.py:117-129: shape the response, or wrap the failure
Shape(r) ==
  /\ pc[r] = "replied"
  /\ pc' = [pc EXCEPT ![r] = "done"]
  /\ result' = [result EXCEPT ![r] = Outcome(request[r], reply[r])]
  /\ UNCHANGED formVars
  /\ UNCHANGED <<environ, phase, api_key, languages, request, call, calls, reply>>

\* the HTTP response is sent and the request's objects are discarded
Respond(r) ==
  /\ pc[r] = "done"
  /\ pc' = [pc EXCEPT ![r] = "idle"]
  /\ request' = [request EXCEPT ![r] = NoRequest]
  /\ call' = [call EXCEPT ![r] = NoCall]
  /\ calls' = [calls EXCEPT ![r] = 0]
  /\ reply' = [reply EXCEPT ![r] = NoReply]
  /\ result' = [result EXCEPT ![r] = NoResult]
  /\ UNCHANGED formVars
  /\ UNCHANGED <<environ, phase, api_key, languages>>

\* One request at a time, every request and every reply.
Next ==
  \/ Startup
  \/ \E req \in TranslationRequest : Receive(1, req)
  \/ Validate(1)
  \/ CallAPI(1)
  \/ \E rep \in Replies : APIReply(1, rep)
  \/ Shape(1)
  \/ Respond(1)


\* Some of the requests, for several requests in hand at once.
ConcurrentRequests ==
  { req \in TranslationRequest :
      /\ req.source_language \in {"en", "xx"}
      /\ req.target_language \in {"en", "fr"}
      /\ Len_(req.text) <= 1 }

\* Requests handled at the same time.  The steps of different requests
\* interleave at every step of the handler, which is at least every
\* interleaving one or several worker processes can produce.
NextConcurrent ==
  \/ Startup
  \/ \E r \in Slots, req \in ConcurrentRequests : Receive(r, req)
  \/ \E r \in Slots : Validate(r)
  \/ \E r \in Slots : CallAPI(r)
  \/ \E r \in Slots, rep \in Replies : APIReply(r, rep)
  \/ \E r \in Slots : Shape(r)
  \/ \E r \in Slots : Respond(r)


\* ------------------------------------------------------------ the client form
\* app.py:130: what GET /languages returned (main.py:70)
FormLanguages == SUPPORTED_LANGUAGES

\* app.py:142, 151: list(languages.keys()); a selectbox starts on its first option
FirstOption == "fr"

\* The options the user picks among, the first one included.
Choices == {"fr", "en", "es"}

\* app.py:95-99: the model selectbox stays on its first option
selected_model == "gpt-3.5-turbo"

\* app.py:168-173: what the text area can hold
FormTexts == { s \in Strings : Len_(s) <= max_chars }

NoPayload == <<>>
NoResponse == [kind |-> "none", msg |-> "", status |-> 0,
               body |-> [type |-> "none", detail |-> <<>>, data |-> <<>>]]
NoOutcome == [kind |-> "none", success |-> FALSE, data |-> <<>>, error |-> <<>>, exc |-> ""]

\* app.py:67-72
Payload(text, source, target, model) ==
  [text |-> text, source_language |-> source, target_language |-> target, model |-> model]

\* A response body: a JSON object (with or without "detail", with or without
\* the response record), a JSON value that is no object, or no JSON at all.
Body(type, detail, data) == [type |-> type, detail |-> detail, data |-> data]
HTTPResponse(status, body) ==
  [kind |-> "response", msg |-> "", status |-> status, body |-> body]
RequestException(msg) ==
  [kind |-> "raise", msg |-> msg, status |-> 0, body |-> Body("none", <<>>, <<>>)]

\* app.py:74: what requests.post can do with the payload
HTTPResults(payload) ==
  { RequestException("Connection refused"),
    RequestException("Read timed out. (read timeout=30)"),
    HTTPResponse(200, Body("object", <<>>,
      <<[original_text |-> payload.text,
         translated_text |-> <<[ch |-> "a", n |-> 1]>>,
         source_language |-> payload.source_language,
         target_language |-> payload.target_language]>>)),
    HTTPResponse(400, Body("object", << <<"Text too long (max 5000 characters)">> >>, <<>>)),
    HTTPResponse(500, Body("object", << <<"Translation failed: ", "Connection error.">> >>, <<>>)),
    HTTPResponse(404, Body("object", <<>>, <<>>)),
    HTTPResponse(502, Body("invalid", <<>>, <<>>)),
    HTTPResponse(502, Body("array", <<>>, <<>>)) }

Returned(success, data, error) ==
  [kind |-> "return", success |-> success, data |-> data, error |-> error, exc |-> ""]
Raised(exc) ==
  [kind |-> "raise", success |-> FALSE, data |-> <<>>, error |-> <<>>, exc |-> exc]

\* app.py:64-83: what translate_text returns or raises.  response.json() of a
\* body that is no JSON raises JSONDecodeError, which is a RequestException
\* in some releases of requests and only a ValueError in others; .get of a
\* JSON value that is no object raises AttributeError.
translate_text(resp) ==
  IF resp.kind = "raise"
    THEN { Returned(FALSE, <<>>, <<"Erreur de connexion: ", resp.msg>>) }
  ELSE IF resp.body.type = "invalid"
    THEN { Returned(FALSE, <<>>, <<"Erreur de connexion: ", "Expecting value: line 1 column 1 (char 0)">>),
           Raised("JSONDecodeError") }
  ELSE IF resp.status = 200
    THEN { Returned(TRUE, <<resp.body>>, <<>>) }
  ELSE IF resp.body.type # "object"
    THEN { Raised("AttributeError") }
  ELSE IF resp.body.detail = <<>>
    THEN { Returned(FALSE, <<>>, <<"Erreur inconnue">>) }
  ELSE { Returned(FALSE, <<>>, resp.body.detail[1]) }

\* app.py:199-229: what main renders for the outcome
Rendered(out) ==
  IF out.kind = "raise" THEN "exception"
  ELSE IF ~out.success THEN "error"
  ELSE IF /\ out.data[1].type = "object"
          /\ out.data[1].data # <<>>
          /\ out.data[1].data[1].source_language \in DOMAIN FormLanguages
          /\ out.data[1].data[1].target_language \in DOMAIN FormLanguages
    THEN "result"
  ELSE "exception"

\* app.py:186: disabled=not text_to_translate.strip() or source_lang == target_lang
Disabled(text, source, target) == ~Truthy(Strip(text)) \/ source = target

\* Variant of Submission testing `not text_to_translate`.
SubmissionNoStrip(text, source, target) ==
  IF source = target THEN "warn_same"
  ELSE IF ~Truthy(text) THEN "warn_empty"
  ELSE "send"

\* app.py:190-195: what a press of the translate button leads to
Submission(text, source, target) ==
  IF source = target THEN "warn_same"
  ELSE IF ~Truthy(Strip(text)) THEN "warn_empty"
  ELSE "send"

InitForm ==
  /\ source_lang = FirstOption
  /\ target_lang = FirstOption
  /\ text_to_translate = <<>>
  /\ button_disabled = Disabled(<<>>, FirstOption, FirstOption)
  /\ posted = NoPayload
  /\ response = NoResponse
  /\ outcome = NoOutcome
  /\ shown = "form"

\* A script run that renders the form and nothing under it.
Rerun(text, source, target) ==
  /\ source_lang' = source
  /\ target_lang' = target
  /\ text_to_translate' = text
  /\ button_disabled' = Disabled(text, source, target)
  /\ posted' = NoPayload
  /\ response' = NoResponse
  /\ outcome' = NoOutcome
  /\ shown' = "form"
  /\ UNCHANGED svcVars

\* app.py:140-145: the user picks a source language
ChooseSource(code) ==
  /\ code # source_lang
  /\ Rerun(text_to_translate, code, target_lang)

\* app.py:149-154: the user picks a target language
ChooseTarget(code) ==
  /\ code # target_lang
  /\ Rerun(text_to_translate, source_lang, code)

\* app.py:159-162: the swap button, then st.rerun()
SwapLanguages == Rerun(text_to_translate, target_lang, source_lang)

\* app.py:168-173: the user commits an edit of the text area
EditText(text) ==
  /\ text # text_to_translate
  /\ Rerun(text, source_lang, target_lang)

\* app.py:182-229: the user presses the translate button, which was rendered
\* enabled; an edit of the text area still pending in the browser is
\* committed with the press, so the run sees the text of `edit`.
PressTranslate(edit) ==
  /\ ~button_disabled
  /\ LET text == IF edit = <<>> THEN text_to_translate ELSE edit[1]
         what == Submission(text, source_lang, target_lang)
         payload == Payload(text, source_lang, target_lang, selected_model)
     IN /\ text_to_translate' = text
        /\ button_disabled' = Disabled(text, source_lang, target_lang)
        /\ IF what = "send"
           THEN /\ posted' = <<payload>>
                /\ \E resp \in HTTPResults(payload) :
                     /\ response' = resp
                     /\ \E out \in translate_text(resp) :
                          /\ outcome' = out
                          /\ shown' = Rendered(out)
           ELSE /\ posted' = NoPayload
                /\ response' = NoResponse
                /\ outcome' = NoOutcome
                /\ shown' = what
  /\ UNCHANGED <<source_lang, target_lang>>
  /\ UNCHANGED svcVars

NextForm ==
  \/ \E code \in Choices : ChooseSource(code)
  \/ \E code \in Choices : ChooseTarget(code)
  \/ SwapLanguages
  \/ \E text \in FormTexts : EditText(text)
  \/ \E edit \in {<<>>} \cup { <<text>> : text \in FormTexts } : PressTranslate(edit)

\* ------------------------------------------------------------ specifications
Init == InitService /\ InitForm

\* The service handling one request at a time.
Spec == Init /\ [][Next]_vars

\* The service handling several requests at the same time.
SpecConcurrent == Init /\ [][NextConcurrent]_vars

\* The service as a successful import leaves it.
InitServing ==
  /\ environ = <<"sk-test">>
  /\ phase = "serving"
  /\ api_key = environ
  /\ languages = SUPPORTED_LANGUAGES
  /\ pc = [r \in Slots |-> "idle"]
  /\ request = [r \in Slots |-> NoRequest]
  /\ call = [r \in Slots |-> NoCall]
  /\ calls = [r \in Slots |-> 0]
  /\ reply = [r \in Slots |-> NoReply]
  /\ result = [r \in Slots |-> NoResult]

\* The client form in front of a started service, answered by whatever the
\* network gives.
InitClient == InitServing /\ InitForm

SpecForm == InitClient /\ [][NextForm]_vars

\* ------------------------------------------------------------------ claims
Supported(code) == code \in DOMAIN SUPPORTED_LANGUAGES
SourceDetail(code) == <<"Source language '", code, "' not supported">>
TargetDetail(code) == <<"Target language '", code, "' not supported">>
EmptyDetail == <<"Text cannot be empty">>
TooLongDetail == <<"Text too long (max 5000 characters)">>
BlankText(text) == Strip(text) = <<>>
\* The request passes the four checks of the spec's validation order.
PassesChecks(req) ==
  /\ Supported(req.source_language)
  /\ Supported(req.target_language)
  /\ ~BlankText(req.text)
  /\ Len_(req.text) <= 5000
Rejected(r, detail) ==
  result[r].status = 400 /\ result[r].detail = detail /\ result[r].data = <<>>

\* C1: a finished request reports the error of the first failing check in the
\* order source code, target code, blank text, text length, each with status
\* 400 (never rewrapped as a 500).
C1_FirstFailingCheck ==
  \A r \in Slots : pc[r] = "done" =>
    LET req == request[r] IN
      /\ ~Supported(req.source_language) => Rejected(r, SourceDetail(req.source_language))
      /\ Supported(req.source_language) /\ ~Supported(req.target_language)
           => Rejected(r, TargetDetail(req.target_language))
      /\ Supported(req.source_language) /\ Supported(req.target_language)
           /\ BlankText(req.text) => Rejected(r, EmptyDetail)
      /\ Supported(req.source_language) /\ Supported(req.target_language)
           /\ ~BlankText(req.text) /\ Len_(req.text) > 5000 => Rejected(r, TooLongDetail)

\* C1 witness: an unsupported source with an empty text has been answered
\* with the source error.
C1_Witness ==
  \E r \in Slots :
    /\ pc[r] = "done"
    /\ request[r].source_language = "xx"
    /\ request[r].text = <<>>
    /\ Rejected(r, SourceDetail("xx"))

\* C2: the completion API is called only for a request that passed all four
\* checks; a request failing one ends with a 400 and no call.
C2_NoCallBeforeValidation ==
  \A r \in Slots :
    /\ (calls[r] > 0 \/ pc[r] \in {"calling", "awaiting", "replied"})
         => PassesChecks(request[r])
    /\ (pc[r] = "done" /\ ~PassesChecks(request[r]))
         => (result[r].status = 400 /\ calls[r] = 0)

\* C2 witness: a request with a text over the limit has been rejected and
\* the API was not called.
C2_Witness ==
  \E r \in Slots :
    /\ pc[r] = "done"
    /\ Supported(request[r].source_language)
    /\ Supported(request[r].target_language)
    /\ Len_(request[r].text) > 5000
    /\ result[r].status = 400
    /\ calls[r] = 0

\* C3 as stated: with both codes supported, every text longer than 5000
\* characters is rejected with 'text too long' and every text of exactly
\* 5000 characters reaches the external call.
C3_Original ==
  \A r \in Slots :
    (pc[r] = "done" /\ Supported(request[r].source_language)
       /\ Supported(request[r].target_language)) =>
      /\ Len_(request[r].text) > 5000 => Rejected(r, TooLongDetail)
      /\ Len_(request[r].text) = 5000 => calls[r] = 1

\* C3 amended: with both codes supported and a text that is not blank after
\* trimming, every text longer than 5000 characters (untrimmed) is rejected
\* with 'text too long' and every text of exactly 5000 characters reaches
\* the external call; a blank text of any length is rejected as empty.
C3_LengthBoundary ==
  \A r \in Slots :
    (pc[r] = "done" /\ Supported(request[r].source_language)
       /\ Supported(request[r].target_language)) =>
      /\ (~BlankText(request[r].text) /\ Len_(request[r].text) > 5000)
           => (Rejected(r, TooLongDetail) /\ calls[r] = 0)
      /\ (~BlankText(request[r].text) /\ Len_(request[r].text) = 5000)
           => (calls[r] = 1 /\ result[r].status # 400)
      /\ BlankText(request[r].text) => Rejected(r, EmptyDetail)

\* C3 witness: a text of exactly 5000 characters, part of them whitespace,
\* has been accepted and translated.
C3_Witness ==
  \E r \in Slots :
    /\ pc[r] = "done"
    /\ Len_(request[r].text) = 5000
    /\ Len_(Strip(request[r].text)) < 5000
    /\ calls[r] = 1
    /\ result[r].status = 200

\* C4: a 200 response echoes the request's text and language codes and
\* carries the first choice's content with surrounding whitespace removed.
C4_ResponseEchoes ==
  \A r \in Slots :
    (pc[r] = "done" /\ result[r].status = 200) =>
      /\ Len(result[r].data) = 1
      /\ result[r].data[1].original_text = request[r].text
      /\ result[r].data[1].source_language = request[r].source_language
      /\ result[r].data[1].target_language = request[r].target_language
      /\ reply[r].kind = "response"
      /\ reply[r].choices # <<>>
      /\ reply[r].choices[1].content # <<>>
      /\ result[r].data[1].translated_text = Strip(reply[r].choices[1].content[1])

\* C4 witness: a completion with whitespace on both sides has been trimmed
\* into a 200 response.
C4_Witness ==
  \E r \in Slots :
    /\ pc[r] = "done"
    /\ result[r].status = 200
    /\ reply[r].choices[1].content[1] = <<[ch |-> " ", n |-> 1], [ch |-> "a", n |-> 1], [ch |-> " ", n |-> 1]>>
    /\ result[r].data[1].translated_text = <<[ch |-> "a", n |-> 1]>>

\* The error text of a completion call that failed; "" for one that did not.
UnderlyingError(rep) ==
  IF rep.kind = "raise" THEN rep.msg
  ELSE IF rep.choices = <<>> THEN "list index out of range"
  ELSE IF rep.choices[1].content = <<>> THEN "'NoneType' object has no attribute 'strip'"
  ELSE ""

C5_Finished ==
  \A r \in Slots :
    (pc[r] = "done" /\ PassesChecks(request[r])) =>
      /\ calls[r] = 1
      /\ UnderlyingError(reply[r]) # "" =>
           /\ result[r].status = 500
           /\ result[r].detail = <<"Translation failed: ", UnderlyingError(reply[r])>>
           /\ result[r].data = <<>>

C5_Step ==
  /\ languages' = languages
  /\ phase = "serving" => api_key' = api_key
  /\ \A r \in Slots :
       /\ calls'[r] <= 1
       /\ (pc[r] # "idle" /\ pc'[r] # "idle") => request'[r] = request[r]

\* C5: a validated request calls the completion API exactly once; a failed
\* call (an exception, no choices, no content) ends in a 500 whose detail is
\* 'Translation failed: ' and the error text; the call is never repeated and
\* no step changes the request in hand, the language table or the credential.
C5_SingleCallFailureWrapped == []C5_Finished /\ [][C5_Step]_vars

\* C5 witness: an exception of the completion call has been answered.
C5_Witness ==
  \E r \in Slots :
    /\ pc[r] = "done"
    /\ reply[r].kind = "raise"
    /\ calls[r] = 1
    /\ result[r].detail = <<"Translation failed: ", "Connection error.">>

\* C6: with the key unset or empty the process never serves; whenever a
\* request is in hand the key is present, and no request ever ends with
\* 'OpenAI API key not configured'.
C6_FailFast ==
  /\ NotKey(environ) => (phase # "serving" /\ \A r \in Slots : pc[r] = "idle")
  /\ \A r \in Slots :
       /\ pc[r] # "idle" => (api_key # <<>> /\ api_key # <<"">>)
       /\ result[r].detail # <<"OpenAI API key not configured">>

\* C6 witness: the import has failed on an empty key.
C6_Witness == phase = "failed" /\ environ = <<"">>

\* C10: a request whose source and target are the same supported code, with
\* a valid text, is not rejected: the API is called, and a well-formed reply
\* gives a 200 response.
C10_SamePairPermitted ==
  \A r \in Slots :
    (pc[r] = "done" /\ request[r].source_language = request[r].target_language
       /\ PassesChecks(request[r])) =>
      /\ calls[r] = 1
      /\ result[r].status # 400
      /\ UnderlyingError(reply[r]) = "" => result[r].status = 200

\* C10 witness: a same-language request has been answered with a 200.
C10_Witness ==
  \E r \in Slots :
    /\ pc[r] = "done"
    /\ request[r].source_language = "en"
    /\ request[r].target_language = "en"
    /\ result[r].status = 200

\* C7: whatever the interleaving, a finished request's outcome is the one
\* its own fields and its own completion reply determine, two requests with
\* the same fields and reply end the same, and the language table and the
\* credential are as initialization left them.
C7_RequestsIndependent ==
  /\ languages = SUPPORTED_LANGUAGES
  /\ phase # "boot" => api_key = environ
  /\ \A r \in Slots : pc[r] = "done" =>
       result[r] = IF ~PassesChecks(request[r])
                   THEN ValidationError(environ, SUPPORTED_LANGUAGES, request[r])
                   ELSE Outcome(request[r], reply[r])
  /\ \A r1, r2 \in Slots :
       (pc[r1] = "done" /\ pc[r2] = "done" /\ request[r1] = request[r2]
          /\ reply[r1] = reply[r2]) => result[r1] = result[r2]

\* C7 witness: a request has been answered with a 200 while a different
\* request, received meanwhile, is still waiting for its completion.
C7_Witness ==
  \E r1, r2 \in Slots :
    /\ pc[r1] = "done" /\ result[r1].status = 200
    /\ pc[r2] = "replied" /\ reply[r2].kind = "raise"
    /\ request[r1] # request[r2]

\* C8: whatever the user did before, a script run POSTs to /translate only
\* with distinct source and target codes and a text that is not blank, the
\* values the form holds; in every other run nothing is sent.
C8_FormSendsOnlyValid ==
  /\ posted # NoPayload =>
       /\ posted[1].source_language # posted[1].target_language
       /\ ~BlankText(posted[1].text)
       /\ posted[1] = Payload(text_to_translate, source_lang, target_lang, "gpt-3.5-turbo")
  /\ (source_lang = target_lang \/ BlankText(text_to_translate)) => posted = NoPayload
  /\ shown \in {"form", "warn_same", "warn_empty"} => posted = NoPayload

\* C8 witness: after the languages were chosen and the text edited, a
\* request has been sent.
C8_Witness ==
  /\ posted # NoPayload
  /\ source_lang = "en"
  /\ target_lang = "fr"
  /\ text_to_translate = <<[ch |-> "a", n |-> 1]>>

\* C9 as stated: the client's translate never raises; a 200 response gives
\* success with the response body, any other response gives failure with the
\* body's detail (or 'Erreur inconnue' when there is none), a connection
\* failure gives failure with 'Erreur de connexion: ...'; a failure is
\* rendered as the error text.
C9_Original ==
  posted # NoPayload =>
    /\ outcome.kind = "return"
    /\ (response.kind = "response" /\ response.status = 200)
         => (outcome.success /\ outcome.data = <<response.body>>)
    /\ (response.kind = "response" /\ response.status # 200)
         => /\ ~outcome.success
            /\ outcome.error = IF response.body.detail = <<>>
                               THEN <<"Erreur inconnue">>
                               ELSE response.body.detail[1]
    /\ response.kind = "raise"
         => (~outcome.success /\ outcome.error = <<"Erreur de connexion: ", response.msg>>)
    /\ ~outcome.success => shown = "error"

====
